---- MODULE Spec2Model ----
(***************************************************************************)
(* Model of the mc-cli command handlers (src/cli/cli.py): the backup       *)
(* command and the four membership commands add_user, remove_user, grant   *)
(* and revoke, which fetch a JSON list from the container, change it in    *)
(* memory and copy a full replacement back.                                *)
(*                                                                         *)
(* One action per command handler.  The outcome of every docker call and   *)
(* of the write into the temporary file is an input of the action.         *)
(***************************************************************************)
EXTENDS Integers, Sequences, FiniteSets, TLC

\* ------------------------------------------------------------------ bounds
MaxInitLen == 2     \* longest allowlist the container starts with
MaxPerms == 2       \* grant is not started on a longer permission list

\* ------------------------------------------------------------------ values
Names == {"alice", "bob"}
Uuids == {"u1", "u2"}
Levels == {"admin", "ADMIN", "superadmin"}

None == "None"

\* PermissionLevel(Enum): the values of the four members
PermissionLevel == {"visitor", "member", "operator", "admin"}

\* str.lower() on the level strings used here
lower(s) == IF s = "ADMIN" THEN "admin" ELSE s

\* the platform id the server writes for a player once they connect
XuidOf(name) == IF name = "alice" THEN "x1" ELSE "x2"

\* dict.get(key): the value, or None when the key is absent
Get(user, key) == IF key \in DOMAIN user THEN user[key] ELSE None

\* ------------------------------------------------------- files and docker
\* content of a file of the container: absent, text that is a JSON array,
\* or text that is not JSON
AbsentFile == [kind |-> "absent", data |-> <<>>]
GarbageFile == [kind |-> "garbage", data |-> <<>>]

\* json.dump(data, f, indent=2): the text of the array
dumps(data) == [kind |-> "json", data |-> data]

\* json.loads(text) succeeds on the text of an array only
Parsable(text) == text.kind = "json"
loads(text) == text.data

\* the entries a file holds (none when it is absent or not JSON)
Entries(file) == IF file.kind = "json" THEN file.data ELSE <<>>

ALLOWLIST == "/data/allowlist.json"
\* mutant of PERMISSIONLIST: the path of the allowlist
PERMISSIONLIST_Pasted == "/data/allowlist.json"
PERMISSIONLIST == "/data/permissionlist.json"

\* docker exec <container> cat <path>: non-zero exit when the container
\* cannot be reached (up = FALSE) or the file does not exist
Cat(file, up) ==
    IF up /\ file.kind # "absent"
    THEN [returncode |-> 0, stdout |-> file]
    ELSE [returncode |-> 1, stdout |-> AbsentFile]

is_cmd_successful(result) == result.returncode = 0

\* one entry of the log of docker commands a handler issued
Call(verb, path, out) == [verb |-> verb, path |-> path, out |-> out]
CatCall(path, result) ==
    Call("exec cat", path, IF is_cmd_successful(result) THEN "ok" ELSE "fail")

\* ----------------------------------------------------------------- results
OK == "ok"
DuplicateUser == "User already exists in allowlist"
AllowlistNotFound == "User not found in allowlist"
UserNotFound == "User does not exist in allowlist.json"
InvalidPermission == "not a recognized permission group"
NotInPermissionList == "User is not in the permissionlist"
UpdateAllowlistFailed == "Failed to update allowlist"
UpdatePermissionlistFailed == "Failed to update permissionlist"
ArchiveFailed == "Docker exec tar command failed"
BackupCopyFailed == "Docker cp command failed"
JSONDecodeError == "json.JSONDecodeError"
Fault == "unexpected fault"

\* what a handler run yields: how it ended, the docker commands it issued,
\* what became of its temporary file, and the content of the file it owns
Outcome(result, calls, temp, file) ==
    [result |-> result, calls |-> calls, temp |-> temp, file |-> file]

\* ------------------------------------------------------------ list helpers
Range(s) == {s[i] : i \in DOMAIN s}

\* all sequences of distinct elements of S of length at most n
SeqsUpTo(S, n) ==
    UNION {{s \in [1..k -> S] : \A i, j \in 1..k : s[i] = s[j] => i = j} :
           k \in 0..n}

\* mutant of any_duplicate: only the uuid is compared
any_duplicate_UuidOnly(allowlist_data, name, uuid) ==
    \E i \in DOMAIN allowlist_data : Get(allowlist_data[i], "uuid") = uuid

\* mutant of any_duplicate: only the name is compared
any_duplicate_NameOnly(allowlist_data, name, uuid) ==
    \E i \in DOMAIN allowlist_data : Get(allowlist_data[i], "name") = name

\* any(user.get("name") == name or user.get("uuid") == uuid for user in ...)
any_duplicate(allowlist_data, name, uuid) ==
    \E i \in DOMAIN allowlist_data :
        \/ Get(allowlist_data[i], "name") = name
        \/ Get(allowlist_data[i], "uuid") = uuid

\* mutant of with_user: the new entry is put first
with_user_Prepended(allowlist_data, name, uuid) ==
    <<[name |-> name, uuid |-> uuid]>> \o allowlist_data

\* allowlist_data.append({"name": name, "uuid": uuid})
with_user(allowlist_data, name, uuid) ==
    Append(allowlist_data, [name |-> name, uuid |-> uuid])

\* mutant of without_name: only the first match is removed
without_name_FirstOnly(allowlist_data, name) ==
    LET hits == {i \in DOMAIN allowlist_data : Get(allowlist_data[i], "name") = name}
    IN IF hits = {} THEN allowlist_data
       ELSE LET k == CHOOSE i \in hits : \A j \in hits : i <= j
            IN SubSeq(allowlist_data, 1, k - 1)
               \o SubSeq(allowlist_data, k + 1, Len(allowlist_data))

\* [user for user in allowlist_data if user.get("name") != name]
without_name(allowlist_data, name) ==
    SelectSeq(allowlist_data, LAMBDA user : Get(user, "name") # name)

\* the test of the generator in next(...): the name matches and the xuid is set
is_connected_user(user, name) ==
    Get(user, "name") = name /\ Get(user, "xuid") # None

\* the None that next(..., None) returns when no entry matches
NoEntry == [none |-> TRUE]

\* next((user for user in allowlist_data if ...), None): the first match
find_user_entry(allowlist_data, name) ==
    LET found == SelectSeq(allowlist_data,
                           LAMBDA user : is_connected_user(user, name))
    IN IF found = <<>> THEN NoEntry ELSE Head(found)

\* any(p.value == permission.lower() for p in list(PermissionLevel))
is_recognized(permission) == lower(permission) \in PermissionLevel

\* permissionlist_data.append(entry)
with_permission(permissionlist_data, entry) == Append(permissionlist_data, entry)

\* mutant of permission_entry: the level is stored as typed
permission_entry_AsTyped(user_xuid, permission) ==
    [xuid |-> user_xuid, permission |-> permission]

\* { "xuid": user_xuid, "permission": permission.lower() }
permission_entry(user_xuid, permission) ==
    [xuid |-> user_xuid, permission |-> lower(permission)]

\* mutant of without_xuid: only the first match is removed
without_xuid_FirstOnly(permissionlist_data, user_xuid) ==
    LET hits == {i \in DOMAIN permissionlist_data :
                    Get(permissionlist_data[i], "xuid") = user_xuid}
    IN IF hits = {} THEN permissionlist_data
       ELSE LET k == CHOOSE i \in hits : \A j \in hits : i <= j
            IN SubSeq(permissionlist_data, 1, k - 1)
               \o SubSeq(permissionlist_data, k + 1, Len(permissionlist_data))

\* [entry for entry in permissionlist_data if entry.get("xuid") != user_xuid]
without_xuid(permissionlist_data, user_xuid) ==
    SelectSeq(permissionlist_data, LAMBDA entry : Get(entry, "xuid") # user_xuid)

\* ------------------------------------------------------------------ publish
\* how the publish steps can go: json.dump raises inside the with block
\* ("dump_fault"), or the file is written and docker cp exits 0 ("ok"),
\* exits non-zero ("fail") or raises while the command is run ("raise")
PublishOutcomes == {"dump_fault", "ok", "fail", "raise"}

\* whether docker exec reaches the container, for the first and the second
\* read of a handler (the second read does not happen after a failed first)
Reachability == {<<TRUE, TRUE>>, <<TRUE, FALSE>>, <<FALSE, TRUE>>}

\* mutant of copy_result: the exit status of docker cp is not looked at
copy_result_Unchecked(cp, message) == IF cp = "raise" THEN Fault ELSE OK

\* how the try block ends for the outcome of docker cp
copy_result(cp, message) ==
    IF cp = "ok" THEN OK ELSE IF cp = "fail" THEN message ELSE Fault

\* docker cp replaces the file in the container when it succeeds and leaves
\* it alone otherwise
\* mutant of copied: the new entries are merged into the file as it is now
copied_Merged(file, data, cp) ==
    IF cp = "ok"
    THEN LET fresh(u) == u \notin Range(Entries(file))
         IN dumps(Entries(file) \o SelectSeq(data, fresh))
    ELSE file
copied(file, data, cp) == IF cp = "ok" THEN dumps(data) ELSE file

\* what becomes of the temporary file when the with block raised
temp_after_dump_fault == "leaked"

\* with NamedTemporaryFile(delete=False): json.dump; try: docker cp ...
\* finally: os.unlink(temp_path)
publish(file, data, path, message, calls, cp) ==
    IF cp = "dump_fault"
    THEN Outcome(Fault, calls, temp_after_dump_fault, file)
    ELSE Outcome(copy_result(cp, message),
                 Append(calls, Call("cp", path, cp)),
                 "deleted",
                 copied(file, data, cp))

\* ----------------------------------------------------------------- handlers
\* add_user(name, uuid)
add_user(file, name, uuid, up, cp) ==
    LET read_result == Cat(file, up)
        calls == <<CatCall(ALLOWLIST, read_result)>>
    IN IF is_cmd_successful(read_result) /\ ~Parsable(read_result.stdout)
       THEN Outcome(JSONDecodeError, calls, "none", file)
       ELSE LET allowlist_data == IF is_cmd_successful(read_result)
                                  THEN loads(read_result.stdout) ELSE <<>>
            IN IF any_duplicate(allowlist_data, name, uuid)
               THEN Outcome(DuplicateUser, calls, "none", file)
               ELSE publish(file, with_user(allowlist_data, name, uuid),
                            ALLOWLIST, UpdateAllowlistFailed, calls, cp)

\* remove_user(name)
remove_user(file, name, up, cp) ==
    LET read_result == Cat(file, up)
        calls == <<CatCall(ALLOWLIST, read_result)>>
    IN IF is_cmd_successful(read_result) /\ ~Parsable(read_result.stdout)
       THEN Outcome(JSONDecodeError, calls, "none", file)
       ELSE LET allowlist_data == IF is_cmd_successful(read_result)
                                  THEN loads(read_result.stdout) ELSE <<>>
                original_count == Len(allowlist_data)
                remaining == without_name(allowlist_data, name)
            IN IF Len(remaining) = original_count
               THEN Outcome(AllowlistNotFound, calls, "none", file)
               ELSE publish(file, remaining, ALLOWLIST, UpdateAllowlistFailed,
                            calls, cp)

\* grant(name, permission)
grant(allow, file, name, permission, up1, up2, cp) ==
    LET output1 == Cat(allow, up1)
        calls1 == <<CatCall(ALLOWLIST, output1)>>
    IN IF is_cmd_successful(output1) /\ ~Parsable(output1.stdout)
       THEN Outcome(JSONDecodeError, calls1, "none", file)
       ELSE
       LET allowlist_data == IF is_cmd_successful(output1)
                             THEN loads(output1.stdout) ELSE <<>>
           user_entry == find_user_entry(allowlist_data, name)
       IN IF user_entry = NoEntry
          THEN Outcome(UserNotFound, calls1, "none", file)
          ELSE
          LET user_xuid == Get(user_entry, "xuid")
              output2 == Cat(file, up2)
              calls2 == Append(calls1, CatCall(PERMISSIONLIST, output2))
          IN IF is_cmd_successful(output2) /\ ~Parsable(output2.stdout)
             THEN Outcome(JSONDecodeError, calls2, "none", file)
             ELSE
             LET permissionlist_data == IF is_cmd_successful(output2)
                                        THEN loads(output2.stdout) ELSE <<>>
             IN IF ~is_recognized(permission)
                THEN Outcome(InvalidPermission, calls2, "none", file)
                ELSE publish(file,
                             with_permission(permissionlist_data,
                                 permission_entry(user_xuid, permission)),
                             PERMISSIONLIST, UpdatePermissionlistFailed,
                             calls2, cp)

\* revoke(name)
revoke(allow, file, name, up1, up2, cp) ==
    LET output1 == Cat(allow, up1)
        calls1 == <<CatCall(ALLOWLIST, output1)>>
    IN IF is_cmd_successful(output1) /\ ~Parsable(output1.stdout)
       THEN Outcome(JSONDecodeError, calls1, "none", file)
       ELSE
       LET allowlist_data == IF is_cmd_successful(output1)
                             THEN loads(output1.stdout) ELSE <<>>
           user_entry == find_user_entry(allowlist_data, name)
       IN IF user_entry = NoEntry
          THEN Outcome(UserNotFound, calls1, "none", file)
          ELSE
          LET user_xuid == Get(user_entry, "xuid")
              output2 == Cat(file, up2)
              calls2 == Append(calls1, CatCall(PERMISSIONLIST, output2))
          IN IF is_cmd_successful(output2) /\ ~Parsable(output2.stdout)
             THEN Outcome(JSONDecodeError, calls2, "none", file)
             ELSE
             LET permissionlist_data == IF is_cmd_successful(output2)
                                        THEN loads(output2.stdout) ELSE <<>>
                 new_permissionlist_data ==
                     without_xuid(permissionlist_data, user_xuid)
             IN IF Len(new_permissionlist_data) = Len(permissionlist_data)
                THEN Outcome(NotInPermissionList, calls2, "none", file)
                ELSE publish(file, new_permissionlist_data,
                             PERMISSIONLIST, UpdatePermissionlistFailed,
                             calls2, cp)

\* mutant of backup_calls: the transfer is issued whatever the archive did
backup_calls_NoAbort(archive, copy) ==
    <<Call("exec tar", "/data/backups", archive),
      Call("cp", "/data/backups", copy)>>

\* the docker commands backup issues for the outcome of the archive step
backup_calls(archive, copy) ==
    IF archive # "ok"
    THEN <<Call("exec tar", "/data/backups", archive)>>
    ELSE <<Call("exec tar", "/data/backups", archive),
           Call("cp", "/data/backups", copy)>>

\* backup(backup_name, backup_dest)
backup(archive, copy) ==
    Outcome(IF archive # "ok" THEN ArchiveFailed
            ELSE IF copy # "ok" THEN BackupCopyFailed ELSE OK,
            backup_calls(archive, copy), "none", AbsentFile)

\* -------------------------------------------------------------------- state
VARIABLES
    allowlist,       \* content of /data/allowlist.json in the container
    permissionlist,  \* content of /data/permissionlist.json in the container
    op,              \* the last invocation: command, arguments and outcome
    prevAllow,       \* allowlist file before the last invocation
    prevPerm,        \* permission file before the last invocation
    follows,         \* how the last invocation relates to the one before it
    inst,            \* per tool instance: the invocation it is running
    writer           \* the instance whose docker cp last replaced the allowlist

vars == <<allowlist, permissionlist, op, prevAllow, prevPerm, follows,
          inst, writer>>

\* the tool instances that may run side by side
Instances == {"A", "B"}

\* an instance that has not run anything
Idle == [pc |-> "idle", cmd |-> "none", name |-> None, arg |-> None,
         read |-> "none", snap |-> <<>>, data |-> <<>>, calls |-> <<>>,
         result |-> None, raced |-> FALSE]

\* the record kept of an invocation
Invocation(cmd, name, arg, r) ==
    [cmd |-> cmd, name |-> name, arg |-> arg,
     result |-> r.result, calls |-> r.calls, temp |-> r.temp]

\* "same": the invocation before it was the same command with the same
\* arguments and reported success; "grant": the last one is revoke(name)
\* and the one before it was a successful grant(name, _)
Follows(cmd, name, arg) ==
    IF op.result = OK /\ op.cmd = cmd /\ op.name = name /\ op.arg = arg
    THEN "same"
    ELSE IF op.result = OK /\ op.cmd = "grant" /\ cmd = "revoke"
            /\ op.name = name
         THEN "grant"
         ELSE "other"

\* allowlist entries the container may start with
InitEntries ==
    {[name |-> "alice", uuid |-> "u1"],
     [name |-> "alice", uuid |-> "u1", xuid |-> XuidOf("alice")],
     [name |-> "bob", uuid |-> "u2"]}

Init ==
    /\ allowlist \in {AbsentFile, GarbageFile}
                     \cup {dumps(s) : s \in SeqsUpTo(InitEntries, MaxInitLen)}
    /\ permissionlist \in {AbsentFile, GarbageFile, dumps(<<>>)}
    /\ op = [cmd |-> "none", name |-> None, arg |-> None,
             result |-> None, calls |-> <<>>, temp |-> "none"]
    /\ prevAllow = allowlist
    /\ prevPerm = permissionlist
    /\ follows = "other"
    /\ inst = [i \in Instances |-> Idle]
    /\ writer = "none"

\* what every invocation records
Record(cmd, name, arg, r) ==
    /\ op' = Invocation(cmd, name, arg, r)
    /\ prevAllow' = allowlist
    /\ prevPerm' = permissionlist
    /\ follows' = Follows(cmd, name, arg)
    /\ UNCHANGED <<inst, writer>>

\* the outcome of the publish steps is an input only of a run that reaches
\* them (one that creates its temporary file); r is the run in which they
\* go well
PublishInputs(r) == IF r.temp = "none" THEN {"ok"} ELSE PublishOutcomes

AddUser ==
    \E name \in Names, uuid \in Uuids, up \in BOOLEAN :
        \E cp \in PublishInputs(add_user(allowlist, name, uuid, up, "ok")) :
            LET r == add_user(allowlist, name, uuid, up, cp)
            IN /\ allowlist' = r.file
               /\ UNCHANGED permissionlist
               /\ Record("add_user", name, uuid, r)

RemoveUser ==
    \E name \in Names, up \in BOOLEAN :
        \E cp \in PublishInputs(remove_user(allowlist, name, up, "ok")) :
            LET r == remove_user(allowlist, name, up, cp)
            IN /\ allowlist' = r.file
               /\ UNCHANGED permissionlist
               /\ Record("remove_user", name, None, r)

Grant ==
    /\ Len(Entries(permissionlist)) < MaxPerms
    /\ \E name \in Names, permission \in Levels, up \in Reachability :
        \E cp \in PublishInputs(grant(allowlist, permissionlist, name,
                                      permission, up[1], up[2], "ok")) :
            LET r == grant(allowlist, permissionlist, name, permission,
                           up[1], up[2], cp)
            IN /\ permissionlist' = r.file
               /\ UNCHANGED allowlist
               /\ Record("grant", name, permission, r)

Revoke ==
    \E name \in Names, up \in Reachability :
        \E cp \in PublishInputs(revoke(allowlist, permissionlist, name,
                                       up[1], up[2], "ok")) :
            LET r == revoke(allowlist, permissionlist, name, up[1], up[2], cp)
            IN /\ permissionlist' = r.file
               /\ UNCHANGED allowlist
               /\ Record("revoke", name, None, r)

Backup ==
    \E archive \in {"ok", "fail"}, copy \in {"ok", "fail"} :
        /\ UNCHANGED <<allowlist, permissionlist>>
        /\ Record("backup", None, None, backup(archive, copy))

\* the server fills in the xuid of the entries of a player who connects
connect(allowlist_data, name) ==
    [i \in DOMAIN allowlist_data |->
        IF Get(allowlist_data[i], "name") = name
        THEN [name |-> name, uuid |-> Get(allowlist_data[i], "uuid"),
              xuid |-> XuidOf(name)]
        ELSE allowlist_data[i]]

ServerConnect ==
    \E name \in Names :
        /\ allowlist.kind = "json"
        /\ \E i \in DOMAIN allowlist.data :
              /\ Get(allowlist.data[i], "name") = name
              /\ Get(allowlist.data[i], "xuid") = None
        /\ allowlist' = dumps(connect(allowlist.data, name))
        /\ UNCHANGED permissionlist
        /\ Record("connect", name, None, Outcome(OK, <<>>, "none", allowlist))

Next ==
    \/ AddUser
    \/ RemoveUser
    \/ Grant
    \/ Revoke
    \/ Backup
    \/ ServerConnect

Spec == Init /\ [][Next]_vars

TypeOK ==
    /\ allowlist.kind \in {"absent", "garbage", "json"}
    /\ permissionlist.kind \in {"absent", "garbage", "json"}
    /\ follows \in {"same", "grant", "other"}

\* ------------------------------------------------- vocabulary of the claims
Membership == {"add_user", "remove_user", "grant", "revoke"}

\* the docker cp a handler issued into the container, if any
Writes == {i \in DOMAIN op.calls : op.calls[i].verb = "cp"}
NoWrite == Writes = {}

\* whether the first (allowlist) and the second (permission list) read of the
\* last invocation exited 0
ReadOk(i) == i \in DOMAIN op.calls /\ op.calls[i].verb = "exec cat"
             /\ op.calls[i].out = "ok"

\* the list the last invocation held in memory after reading the allowlist,
\* the permission list
FetchedAllow == IF ReadOk(1) THEN Entries(prevAllow) ELSE <<>>
FetchedPerm == IF ReadOk(2) THEN Entries(prevPerm) ELSE <<>>

Named(list, name) == {i \in DOMAIN list : "name" \in DOMAIN list[i] /\ list[i].name = name}
WithUuid(list, uuid) == {i \in DOMAIN list : "uuid" \in DOMAIN list[i] /\ list[i].uuid = uuid}
WithXuid(list, xuid) == {i \in DOMAIN list : "xuid" \in DOMAIN list[i] /\ list[i].xuid = xuid}

\* list without the positions in drop, the rest in their order
RECURSIVE Drop(_, _, _)
Drop(list, drop, i) ==
    IF i > Len(list) THEN <<>>
    ELSE (IF i \in drop THEN <<>> ELSE <<list[i]>>) \o Drop(list, drop, i + 1)

Unchanged == allowlist = prevAllow /\ permissionlist = prevPerm

\* --------------------------------------------------------------------- C1
\* C1 as stated: add_user fails with the duplicate-user error whenever the
\* fetched allowlist holds an entry with the same name or the same uuid, and
\* then writes nothing; and a second add_user(name, uuid) right after a
\* successful add_user(name, uuid) always fails with that error.
C1_AsStated ==
    op.cmd = "add_user" =>
        /\ (Named(FetchedAllow, op.name) # {} \/ WithUuid(FetchedAllow, op.arg) # {})
              => op.result = DuplicateUser /\ NoWrite /\ Unchanged
        /\ follows = "same" => op.result = DuplicateUser

\* C1 amended: the same, but the second add_user is sure to be rejected only
\* when its read of the allowlist succeeded.
C1_DuplicateRejected ==
    op.cmd = "add_user" =>
        /\ (Named(FetchedAllow, op.name) # {} \/ WithUuid(FetchedAllow, op.arg) # {})
              => op.result = DuplicateUser /\ NoWrite /\ Unchanged
        /\ (follows = "same" /\ ReadOk(1))
              => op.result = DuplicateUser /\ NoWrite /\ Unchanged

\* a second add_user of the same pair is rejected on a list that also holds
\* an unrelated entry
C1_Witness ==
    /\ op.cmd = "add_user" /\ follows = "same" /\ op.result = DuplicateUser
    /\ \E i \in DOMAIN Entries(allowlist) : Entries(allowlist)[i].name # op.name
    /\ Unchanged

\* --------------------------------------------------------------------- C2
ReportsAdd == op.cmd = "add_user" /\ op.result = OK
NewUser == [name |-> op.name, uuid |-> op.arg]

\* C2 as stated: after a successful add_user the remote allowlist is the
\* remote allowlist before the call with {name, uuid} appended, whatever the
\* file held and however the read went.
C2_AsStated ==
    ReportsAdd => allowlist = dumps(Entries(prevAllow) \o <<NewUser>>)

\* C2 amended: after a successful add_user the remote allowlist is the list
\* the command fetched with {name, uuid} (no xuid) appended: the remote list
\* before the call when the read succeeded, the empty list when it failed.
C2_AppendsToFetched ==
    ReportsAdd =>
        /\ allowlist = dumps(FetchedAllow \o <<NewUser>>)
        /\ ReadOk(1) => /\ Entries(allowlist) = Entries(prevAllow) \o <<NewUser>>
                        /\ \A i \in DOMAIN Entries(prevAllow) :
                              Entries(allowlist)[i] = Entries(prevAllow)[i]
        /\ "xuid" \notin DOMAIN Entries(allowlist)[Len(Entries(allowlist))]

\* a successful add_user on a list of two earlier entries
C2_Witness ==
    ReportsAdd /\ ReadOk(1) /\ Len(Entries(prevAllow)) = 2
    /\ Len(Entries(allowlist)) = 3

\* --------------------------------------------------------------------- C3
\* C3: a successful remove_user(name) leaves the allowlist without any entry
\* of that name and with all other entries in their order (one entry shorter
\* when exactly one matched); when no entry of the list matches, it fails
\* with the not-found error, writes nothing, and the list is unchanged.
C3_RemoveUser ==
    op.cmd = "remove_user" =>
        LET before == Entries(prevAllow)
            hits == Named(before, op.name)
        IN /\ op.result = OK =>
                /\ hits # {}
                /\ allowlist = dumps(Drop(before, hits, 1))
                /\ Named(Entries(allowlist), op.name) = {}
                /\ Cardinality(hits) = 1 => Len(Entries(allowlist)) = Len(before) - 1
           /\ (hits = {} /\ prevAllow.kind # "garbage")
                => op.result = AllowlistNotFound
           /\ op.result = AllowlistNotFound => NoWrite /\ Unchanged

\* remove_user took both entries of one name out of a list of three and kept
\* the third
C3_Witness ==
    /\ op.cmd = "remove_user" /\ op.result = OK
    /\ Len(Entries(prevAllow)) = 3
    /\ Cardinality(Named(Entries(prevAllow), op.name)) = 2
    /\ Len(Entries(allowlist)) = 1

\* --------------------------------------------------------------------- C4
\* the first entry of the list with that name and an xuid
Connected(list, name) == {i \in Named(list, name) : "xuid" \in DOMAIN list[i]}

\* C4 as stated: grant fails UserNotFound when no allowlist entry has the
\* name, fails with another error (UserNotConnected) when an entry has the
\* name but none has an xuid, and fails InvalidPermission when the entry is
\* connected but the level is not one of the four; the permission list is
\* unchanged in all three cases.  (Stated for an allowlist that was read and
\* is a JSON array, and a permission file that is absent or a JSON array.)
C4_AsStated ==
    (op.cmd = "grant" /\ ReadOk(1) /\ prevAllow.kind = "json"
     /\ prevPerm.kind # "garbage") =>
        LET list == Entries(prevAllow)
        IN /\ Named(list, op.name) = {}
                => op.result = UserNotFound /\ Unchanged
           /\ (Named(list, op.name) # {} /\ Connected(list, op.name) = {})
                => op.result \notin {OK, UserNotFound} /\ Unchanged
           /\ (Connected(list, op.name) # {}
               /\ op.arg \notin {"visitor", "member", "operator", "admin",
                                 "VISITOR", "MEMBER", "OPERATOR", "ADMIN"})
                => op.result = InvalidPermission /\ Unchanged

\* --------------------------------------------------------------------- C5
ReportsGrant == op.cmd = "grant" /\ op.result = OK

\* the record a successful grant is to store
Granted ==
    LET list == Entries(prevAllow)
        first == CHOOSE i \in Connected(list, op.name) :
                     \A j \in Connected(list, op.name) : i <= j
    IN [xuid |-> list[first].xuid,
        permission |-> IF op.arg = "ADMIN" THEN "admin" ELSE op.arg]

\* C5 as stated: every successful grant leaves the permission list one
\* record longer, the old records followed by {xuid, lower-cased level}.
C5_AsStated ==
    ReportsGrant =>
        /\ permissionlist = dumps(Entries(prevPerm) \o <<Granted>>)
        /\ Len(Entries(permissionlist)) = Len(Entries(prevPerm)) + 1

\* C5 amended: every successful grant stores the list it fetched followed by
\* the one record {xuid, lower-cased level}, whether or not the xuid is
\* already in it: the remote list grows by one when the read of the
\* permission list succeeded or the file held no record; "ADMIN" and "admin"
\* store the same record.
C5_AppendsToFetched ==
    ReportsGrant =>
        /\ permissionlist = dumps(FetchedPerm \o <<Granted>>)
        /\ (ReadOk(2) \/ Entries(prevPerm) = <<>>)
              => /\ Len(Entries(permissionlist)) = Len(Entries(prevPerm)) + 1
                 /\ Cardinality(WithXuid(Entries(permissionlist), Granted.xuid))
                      = Cardinality(WithXuid(Entries(prevPerm), Granted.xuid)) + 1
        /\ op.arg \in {"ADMIN", "admin"} => Granted.permission = "admin"

\* a second grant("ADMIN") for a player who already holds a record
C5_Witness ==
    /\ ReportsGrant /\ op.arg = "ADMIN" /\ ReadOk(2)
    /\ Cardinality(WithXuid(Entries(permissionlist), Granted.xuid)) = 2

\* --------------------------------------------------------------------- C6
\* the xuid revoke resolves the name to: that of the first connected entry
Resolved ==
    LET list == FetchedAllow
        first == CHOOSE i \in Connected(list, op.name) :
                     \A j \in Connected(list, op.name) : i <= j
    IN list[first].xuid

\* revoke removes every record with the resolved xuid and keeps the others
\* in order; when no record was removed it fails UserNotInPermissionList and
\* writes nothing
RevokeRule ==
    (op.cmd = "revoke" /\ Connected(FetchedAllow, op.name) # {}
     /\ ~(ReadOk(2) /\ prevPerm.kind = "garbage")) =>
        LET hits == WithXuid(FetchedPerm, Resolved)
        IN /\ op.result = OK =>
                /\ hits # {}
                /\ permissionlist = dumps(Drop(Entries(prevPerm), hits, 1))
                /\ WithXuid(Entries(permissionlist), Resolved) = {}
           /\ hits = {} => op.result = NotInPermissionList
           /\ op.result = NotInPermissionList => NoWrite /\ Unchanged

\* a step that is revoke(name) right after a successful grant(name, level)
UndoStep ==
    /\ op.cmd = "grant" /\ op.result = OK
    /\ op'.cmd = "revoke" /\ op'.name = op.name /\ op'.result = OK

\* an immediately repeated revoke(name), as stated
RepeatAsStated ==
    (op.cmd = "revoke" /\ follows = "same") => op.result = NotInPermissionList

\* an immediately repeated revoke(name) fails and writes nothing:
\* UserNotInPermissionList when its read of the allowlist succeeded,
\* UserNotFound when it did not
RepeatRule ==
    (op.cmd = "revoke" /\ follows = "same") =>
        /\ op.result = (IF ReadOk(1) THEN NotInPermissionList ELSE UserNotFound)
        /\ NoWrite /\ Unchanged

C7_BackupAborts ==
    op.cmd = "backup" =>
        /\ Len(op.calls) >= 1 /\ op.calls[1].verb = "exec tar"
        /\ op.calls[1].out # "ok" => Len(op.calls) = 1 /\ op.result = ArchiveFailed
        /\ op.calls[1].out = "ok" =>
              /\ Len(op.calls) = 2 /\ op.calls[2].verb = "cp"
              /\ op.calls[2].out # "ok" => op.result = BackupCopyFailed
        /\ op.result = OK <=> \A i \in DOMAIN op.calls : op.calls[i].out = "ok"
        /\ Unchanged

\* a backup whose archive step failed
C7_Witness ==
    /\ op.cmd = "backup" /\ op.result = ArchiveFailed
    /\ Len(op.calls) = 1 /\ op.calls[1].out = "fail"

\* --------------------------------------------------------------------- C8
\* C8 as stated: in every membership command a list file that is absent or is
\* not JSON is taken as the empty list and never fails the command at the
\* read step.
C8_AsStated ==
    op.cmd \in Membership =>
        /\ prevAllow.kind \in {"absent", "garbage"} => op.result # JSONDecodeError
        /\ (op.cmd \in {"grant", "revoke"}
            /\ prevPerm.kind \in {"absent", "garbage"})
              => op.result # JSONDecodeError

\* --------------------------------------------------------------------- C9
\* the docker cp of the last invocation did not succeed
PublishFailed == \E i \in Writes : op.calls[i].out # "ok"

\* C9: when the docker cp of add_user, remove_user, grant or revoke fails,
\* the command ends in an error and both remote files keep their content.
C9_FailedPublish ==
    (op.cmd \in Membership /\ PublishFailed) => op.result # OK /\ Unchanged

\* remove_user found its entry, docker cp failed, the entry is still there
C9_Witness ==
    /\ op.cmd = "remove_user" /\ PublishFailed
    /\ op.result = UpdateAllowlistFailed
    /\ Named(Entries(allowlist), op.name) # {}

\* -------------------------------------------------------------------- C10
\* C10 as stated: no invocation that created a temporary file ends with the
\* file still there.
C10_AsStated == op.temp \in {"none", "deleted"}

\* -------------------------------------------------------------------- C11
\* no two entries of the list share a name, and no two share a uuid
NoCollision(list) ==
    \A i, j \in DOMAIN list :
        i # j => /\ ~("name" \in DOMAIN list[i] /\ "name" \in DOMAIN list[j]
                      /\ list[i].name = list[j].name)
                 /\ ~("uuid" \in DOMAIN list[i] /\ "uuid" \in DOMAIN list[j]
                      /\ list[i].uuid = list[j].uuid)

\* the container starts with no allowlist, an unreadable one, or one without
\* collisions
InitUnique ==
    /\ Init
    /\ NoCollision(Entries(allowlist))

SpecUnique == InitUnique /\ [][Next]_vars

\* C11: from a remote allowlist without collisions, whatever commands run
\* and however they end, the remote allowlist never holds two entries of one
\* name or two entries of one uuid.
C11_Unique == NoCollision(Entries(allowlist))

\* add_user read a list of one entry and made it a list of two
C11_Witness ==
    /\ op.cmd = "add_user" /\ op.result = OK /\ ReadOk(1)
    /\ Len(Entries(allowlist)) = 2
    /\ Entries(prevAllow) # <<>>

\* -------------------------------------------------------------------- C12
\* C12 as stated: in every reachable state every record of the permission
\* list carries the xuid of an entry that is in the allowlist now.
C12_AsStated ==
    \A k \in DOMAIN Entries(permissionlist) :
        WithXuid(Entries(allowlist), Entries(permissionlist)[k].xuid) # {}

\* ------------------------------------------------- two instances side by side
\* Two instances of the tool run add_user / remove_user against the same
\* container.  Each invocation is two steps, its docker exec cat (with the
\* test and the change of the list in memory) and, later, its docker cp; the
\* steps of the two instances interleave freely.

\* the other instance
Other(i) == CHOOSE j \in Instances : j # i

\* the second argument of a command
ArgsOf(cmd) == IF cmd = "add_user" THEN Uuids ELSE {None}

\* the handler run up to its docker cp (with a docker cp that goes well)
Planned(cmd, name, arg, up) ==
    IF cmd = "add_user"
    THEN add_user(allowlist, name, arg, up, "ok")
    ELSE remove_user(allowlist, name, up, "ok")

\* instance i, one run of the tool, starts its command: the read, the test,
\* the new list in memory
Fetch(i) ==
    /\ inst[i].pc = "idle"
    /\ \E cmd \in {"add_user", "remove_user"}, name \in Names, up \in BOOLEAN :
        \E arg \in ArgsOf(cmd) :
            LET r == Planned(cmd, name, arg, up)
                read == r.calls[1].out
                mine == [pc |-> IF r.temp = "none" THEN "done" ELSE "ready",
                         cmd |-> cmd, name |-> name, arg |-> arg,
                         read |-> read,
                         snap |-> IF read = "ok" THEN Entries(allowlist) ELSE <<>>,
                         data |-> IF r.temp = "none" THEN <<>> ELSE loads(r.file),
                         calls |-> <<r.calls[1]>>,
                         result |-> IF r.temp = "none" THEN r.result ELSE None,
                         raced |-> inst[Other(i)].pc = "ready"]
            IN inst' = [inst EXCEPT
                           ![i] = mine,
                           ![Other(i)] = [@ EXCEPT !.raced = @ \/ (inst[Other(i)].pc = "ready")]]
    /\ UNCHANGED <<allowlist, permissionlist, op, prevAllow, prevPerm,
                   follows, writer>>

\* instance i writes its temporary file and runs docker cp
Publish(i) ==
    /\ inst[i].pc = "ready"
    /\ \E cp \in PublishOutcomes :
        LET r == publish(allowlist, inst[i].data, ALLOWLIST,
                         UpdateAllowlistFailed, inst[i].calls, cp)
        IN /\ allowlist' = r.file
           /\ writer' = IF cp = "ok" THEN i ELSE writer
           /\ inst' = [inst EXCEPT ![i] = [@ EXCEPT !.pc = "done",
                                                    !.result = r.result,
                                                    !.calls = r.calls]]
    /\ UNCHANGED <<permissionlist, op, prevAllow, prevPerm, follows>>

InitConc ==
    /\ InitUnique
    /\ permissionlist = dumps(<<>>)

NextConc ==
    \/ \E i \in Instances : Fetch(i)
    \/ \E i \in Instances : Publish(i)

SpecConc == InitConc /\ [][NextConc]_vars

TypeOKConc == \A i \in Instances : inst[i].pc \in {"idle", "ready", "done"}

\* -------------------------------------------------------------------- C13
\* instance i ran add_user, read the allowlist and reported success
Added(i) ==
    /\ inst[i].pc = "done" /\ inst[i].cmd = "add_user"
    /\ inst[i].read = "ok" /\ inst[i].result = OK

\* both instances had read before either wrote
Overlapped == \A i \in Instances : inst[i].raced

\* the entry instance i adds
EntryOf(i) == [name |-> inst[i].name, uuid |-> inst[i].arg]

\* two overlapping add_user runs for distinct (name, uuid) pairs, both
\* reporting success
BothAdded ==
    /\ Overlapped
    /\ \A i \in Instances : Added(i)
    /\ inst["A"].name # inst["B"].name
    /\ inst["A"].arg # inst["B"].arg
    /\ writer \in Instances

\* C13: when two instances run add_user for distinct (name, uuid) pairs, both
\* read the allowlist before either writes it and both report success, the
\* remote allowlist ends as the list the last writer had read with the last
\* writer's entry appended: the entry of the other instance is not in it.
C13_LostUpdate ==
    BothAdded =>
        /\ Entries(allowlist) = Append(inst[writer].snap, EntryOf(writer))
        /\ Named(Entries(allowlist), inst[Other(writer)].name) = {}
        /\ WithUuid(Entries(allowlist), inst[Other(writer)].arg) = {}

\* both read the empty list, both reported success, one entry is listed
C13_Witness ==
    /\ BothAdded
    /\ Len(Entries(allowlist)) = 1
    /\ Entries(allowlist)[1] = EntryOf(writer)

\* -------------------------------------------------------------------- C14
\* C14: however the reads and writes of two instances running add_user /
\* remove_user interleave, starting from a list without collisions, the
\* remote allowlist never holds two entries of one name or of one uuid, and
\* neither does a list an instance is about to write.
C14_PublishedUnique ==
    /\ NoCollision(Entries(allowlist))
    /\ \A i \in Instances : inst[i].pc = "ready" => NoCollision(inst[i].data)

\* both instances added the same name under different uuids, overlapping,
\* both reported success, and the name is listed once
C14_Witness ==
    /\ Overlapped
    /\ \A i \in Instances : Added(i)
    /\ inst["A"].name = inst["B"].name
    /\ inst["A"].arg # inst["B"].arg
    /\ Cardinality(Named(Entries(allowlist), inst["A"].name)) = 1

\* -------------------------------------------------------------------- C15
\* the file a membership command owns
Owned ==
    IF op.cmd \in {"add_user", "remove_user"}
    THEN "/data/allowlist.json"
    ELSE "/data/permissionlist.json"

\* the errors a command reports before it gets to write
Refusals ==
    {DuplicateUser, AllowlistNotFound, UserNotFound, InvalidPermission,
     NotInPermissionList}

\* C15: add_user, remove_user, grant and revoke issue at most one docker cp,
\* as their last docker command and to their own file (the allowlist for
\* add_user and remove_user, the permission list for grant and revoke), and
\* leave the other file as it was; when they end in the duplicate, not-found,
\* invalid-permission or not-in-permission-list error they issue no docker cp
\* and both files are as before.
C15_OneOwnedWrite ==
    op.cmd \in Membership =>
        /\ Cardinality(Writes) <= 1
        /\ \A i \in Writes : i = Len(op.calls) /\ op.calls[i].path = Owned
        /\ op.cmd \in {"add_user", "remove_user"} => permissionlist = prevPerm
        /\ op.cmd \in {"grant", "revoke"} => allowlist = prevAllow
        /\ op.result \in Refusals => NoWrite /\ Unchanged

\* a grant that read both files wrote the permission list, last, once
C15_Witness ==
    /\ op.cmd = "grant" /\ op.result = OK
    /\ Len(op.calls) = 3 /\ Writes = {3}
    /\ op.calls[3].path = "/data/permissionlist.json"
    /\ permissionlist # prevPerm /\ allowlist = prevAllow

====
